---- MODULE Spec2Model ----
(***************************************************************************)
(* Pulse video platform: the asynchronous processing pipeline              *)
(* (processVideoAsync -> VideoProcessingService.processVideo ->            *)
(* SensitivityAnalysisService.analyzeVideo), reanalysis, deletion, and the *)
(* stream / download endpoints, for one video document.                    *)
(*                                                                         *)
(* Node runs the code between two awaits as one step, so every action is   *)
(* one such stretch.  A Mongoose document is an in-memory copy with a set  *)
(* of modified paths; save() writes the modified paths only, and fails     *)
(* when the store is unreachable or the record is gone.                    *)
(***************************************************************************)
EXTENDS Integers, Sequences, FiniteSets, TLC

\* ------------------------------------------------------------- bounds
MaxReanalyses == 1
MaxStreams == 1
MaxDownloads == 1
MaxScore == 100
FileSize == 4
MaxSockets == 2
MaxEmits == 2
MaxAssets == 2

\* ---------------------------------------------------- nullable values
Null == <<>>
Some(x) == <<x>>

\* ------------------------------------------------- the video document
\* The schema defaults, overridden by the fields Video.create is given.
NewVideo ==
  [status |-> "uploading",
   processingProgress |-> 5,
   processingMessage |-> "Upload complete, starting processing...",
   sensitivityStatus |-> "pending",
   sensitivityScore |-> Null,
   sensitivityDetails |-> Null,
   sensitivityReasons |-> <<>>,
   errorMessage |-> Null,
   duration |-> Null,
   resolution |-> [width |-> Null, height |-> Null],
   thumbnail |-> Null,
   streamingUrl |-> Null]

\* A loaded document: its values and its modified paths.
Document(val) == [val |-> val, dirty |-> {}]

\* Assignment to a path: the path is marked modified when the value changes.
SetField(d, f, v) ==
  IF d.val[f] = v THEN d
  ELSE [val |-> [d.val EXCEPT ![f] = v], dirty |-> d.dirty \cup {f}]

\* videoSchema.methods.updateProgress, up to its save().
updateProgress(d, progress, message, status) ==
  LET d1 == SetField(d, "processingProgress", progress)
      d2 == IF message # "" THEN SetField(d1, "processingMessage", message) ELSE d1
      d3 == IF status # "" THEN SetField(d2, "status", status) ELSE d2
  IN d3

\* What a successful save() leaves in the store: the modified paths are written.
SaveInto(rec, d) ==
  LET P(f) == IF f \in d.dirty THEN d.val[f] ELSE rec[f]
  IN [status |-> P("status"),
      processingProgress |-> P("processingProgress"),
      processingMessage |-> P("processingMessage"),
      sensitivityStatus |-> P("sensitivityStatus"),
      sensitivityScore |-> P("sensitivityScore"),
      sensitivityDetails |-> P("sensitivityDetails"),
      sensitivityReasons |-> P("sensitivityReasons"),
      errorMessage |-> P("errorMessage"),
      duration |-> P("duration"),
      resolution |-> P("resolution"),
      thumbnail |-> P("thumbnail"),
      streamingUrl |-> P("streamingUrl")]

Saved(d) == [d EXCEPT !.dirty = {}]

\* ------------------------------------------------------ the classifier
Categories == <<"violence", "adult", "hate", "drugs", "language">>

thresholds ==
  [violence |-> 70, adult |-> 70, hate |-> 60, drugs |-> 60, language |-> 80]

overallThreshold == 65

categoryLabels ==
  [violence |-> "Violent content", adult |-> "Adult content",
   hate |-> "Hate speech or symbols", drugs |-> "Drug-related content",
   language |-> "Explicit language"]

\* performAnalysis: every category gets a score and detected = false.
AnalysisOf(scores) ==
  [c \in {Categories[i] : i \in 1..Len(Categories)} |->
     [score |-> scores[c], detected |-> FALSE]]

MaxOf(S) == CHOOSE m \in S : \A x \in S : x <= m

RECURSIVE SumScores(_, _)
SumScores(results, i) ==
  IF i = 0 THEN 0 ELSE results[Categories[i]].score + SumScores(results, i - 1)

\* The weighted score cut off instead of rounded.
calculateOverallScoreTruncated(results) ==
  LET maxScore == MaxOf({results[Categories[i]].score : i \in 1..Len(Categories)})
      sum == SumScores(results, Len(Categories))
  IN (15 * maxScore + 2 * sum) \div 25

\* Math.round(max * 0.6 + avg * 0.4) = round((15 * max + 2 * sum) / 25) for five
\* scores; the value is never at a half, so rounding half up is floor(x + 1/2).
calculateOverallScore(results) ==
  LET maxScore == MaxOf({results[Categories[i]].score : i \in 1..Len(Categories)})
      sum == SumScores(results, Len(Categories))
  IN (2 * (15 * maxScore + 2 * sum) + 25) \div 50

\* The first category, in declaration order, whose score reaches its threshold.
FirstExceeded(results) ==
  LET hit == {i \in 1..Len(Categories) :
                results[Categories[i]].score >= thresholds[Categories[i]]}
  IN IF hit = {} THEN 0 ELSE CHOOSE i \in hit : \A j \in hit : i <= j

\* The verdict from the category thresholds alone.
determineSensitivityStatusByCategory(results, overallScore) ==
  LET i == FirstExceeded(results)
  IN IF i # 0
       THEN [status |-> "flagged",
             results |-> [results EXCEPT ![Categories[i]].detected = TRUE]]
       ELSE [status |-> "safe", results |-> results]

\* determineSensitivityStatus returns the status and marks, in place, the
\* category that made it return.
determineSensitivityStatus(results, overallScore) ==
  LET i == FirstExceeded(results)
  IN IF i # 0
       THEN [status |-> "flagged",
             results |-> [results EXCEPT ![Categories[i]].detected = TRUE]]
       ELSE IF overallScore >= overallThreshold
              THEN [status |-> "flagged", results |-> results]
              ELSE [status |-> "safe", results |-> results]

Digits == <<"0", "1", "2", "3", "4", "5", "6", "7", "8", "9">>

\* The decimal text of a number, as a template literal prints it.
RECURSIVE NumberText(_)
NumberText(n) ==
  IF n < 10 THEN Digits[n + 1]
  ELSE NumberText(n \div 10) \o Digits[(n % 10) + 1]

\* The reasons of the categories marked detected only.
RECURSIVE ReasonsFromDetected(_, _)
ReasonsFromDetected(results, i) ==
  IF i > Len(Categories) THEN <<>>
  ELSE LET c == Categories[i]
           data == results[c]
           rest == ReasonsFromDetected(results, i + 1)
       IN IF data.detected
            THEN <<categoryLabels[c] \o " detected (score: "
                     \o NumberText(data.score) \o ")">> \o rest
            ELSE rest

RECURSIVE ReasonsFrom(_, _)
ReasonsFrom(results, i) ==
  IF i > Len(Categories) THEN <<>>
  ELSE LET c == Categories[i]
           data == results[c]
           rest == ReasonsFrom(results, i + 1)
       IN IF data.detected \/ data.score >= thresholds[c]
            THEN <<categoryLabels[c] \o " detected (score: "
                     \o NumberText(data.score) \o ")">> \o rest
            ELSE rest

generateReasons(results) == ReasonsFrom(results, 1)

\* The classification analyzeVideo computes from the analysis results.
Classify(scores) ==
  LET analysisResults == AnalysisOf(scores)
      overallScore == calculateOverallScore(analysisResults)
      verdict == determineSensitivityStatus(analysisResults, overallScore)
  IN [details |-> verdict.results,
      score |-> overallScore,
      status |-> verdict.status,
      reasons |-> generateReasons(verdict.results)]

Uniform(n) ==
  [violence |-> n, adult |-> n, hate |-> n, drugs |-> n, language |-> n]

\* Score vectors performAnalysis can produce (each score is in 0..89).
SampleScores ==
  {Uniform(10), [Uniform(10) EXCEPT !.violence = 80]}

\* ------------------------------------------------------------- state
\* Run 0 is the upload-triggered run (processVideoAsync); runs 1.. are the
\* reanalysis runs (SensitivityAnalysisService.reanalyzeVideo).
Runs == 0..MaxReanalyses
UploadRun == 0

VARIABLES
  recordState,   \* "none" | "present" | "deleted": the document in the store
  store,         \* the stored document
  views,         \* its view counter
  fileExists,    \* the source file is on disk
  pc,            \* where each run stands
  doc,           \* each run's in-memory document
  events,        \* what each run has passed to its socketEmitter, in order
  caught,        \* the message of the error a run is handling
  rejected,      \* a promise rejection nobody handled
  uploadResponse,\* the video the upload request answered with
  streams,       \* stream requests answered so far
  downloads,     \* download requests answered so far
  request,       \* the request being served: the document findById returned
  response,      \* the last response sent
  pendingViews,  \* incrementViewCount calls in flight
  scoreVector,   \* the category scores handed to the classifier
  classified,    \* what the classifier made of them
  requester,     \* the role of the authenticated user who uploads
  sockets,       \* each user's sockets that are connected
  connectedUsers,\* the socket the handler's map holds for each user
  deliveries,    \* what became of each call of a user's socketEmitter
  caller,        \* the user who asks for the video: how they relate to it
  visibility,    \* the video's visibility
  accessResponse,\* the answer to the caller's last request
  library,       \* the stored records of several assets, by _id
  job            \* each upload's processVideoAsync call: position, document, events

vars ==
  <<recordState, store, views, fileExists, pc, doc, events, caught,
    rejected, uploadResponse, streams, downloads, request,
    response, pendingViews, scoreVector, classified, requester,
    sockets, connectedUsers, deliveries, caller, visibility, accessResponse,
    library, job>>

Update(progress, message, status) ==
  [name |-> "processing:update", progress |-> progress,
   message |-> message, status |-> status]

Signal(name, message) ==
  [name |-> name, progress |-> 0, message |-> message, status |-> ""]

NoRequest ==
  [kind |-> "none", found |-> FALSE, status |-> "", range |-> Null, size |-> 0]

NoResponse ==
  [kind |-> "none", code |-> 0, statusSeen |-> "", bytes |-> 0,
   contentRange |-> Null, contentLength |-> Null, fileSize |-> Null,
   viewScheduled |-> FALSE]

\* ------------------------------------------------ the other services
\* The users with sockets, and the sockets each of them may open.
Users == {"u1", "u2"}

SocketIds == 1..MaxSockets

\* const connectedUsers = new Map(), and nothing emitted yet.
SocketsIdle ==
  /\ sockets = [u \in Users |-> {}]
  /\ connectedUsers = [u \in Users |-> Null]
  /\ deliveries = <<>>

\* The uploader asking for their own private video; no request answered yet.
Uploader ==
  [isOwner |-> TRUE, role |-> "editor", sameOrganization |-> TRUE,
   shared |-> "none"]

AccessIdle ==
  /\ caller = Uploader
  /\ visibility = "private"
  /\ accessResponse = Null

\* The uploads of several assets: nothing uploaded yet.
AssetIds == 1..MaxAssets

IdleJob ==
  [pc |-> "idle", id |-> 0, doc |-> Document(NewVideo), events |-> <<>>,
   caught |-> "", rejected |-> FALSE]

PairIdle ==
  /\ library = [a \in AssetIds |-> Null]
  /\ job = [j \in AssetIds |-> IdleJob]

Init ==
  /\ recordState = "none"
  /\ store = NewVideo
  /\ views = 0
  /\ fileExists = TRUE
  /\ pc = [r \in Runs |-> "idle"]
  /\ doc = [r \in Runs |-> Document(NewVideo)]
  /\ events = [r \in Runs |-> <<>>]
  /\ caught = [r \in Runs |-> ""]
  /\ rejected = FALSE
  /\ uploadResponse = Null
  /\ streams = 0
  /\ downloads = 0
  /\ request = NoRequest
  /\ response = NoResponse
  /\ pendingViews = 0
  /\ scoreVector = Uniform(0)
  /\ classified = Null
  /\ requester = "editor"
  /\ SocketsIdle
  /\ AccessIdle
  /\ PairIdle

\* ------------------------------------------------------- persistence
\* The record is in the store: findById finds it and save() can write it.
Present == recordState \in {"present", "deleting"}

SaveErrorMessage == "save failed"

\* save() of run r succeeds: the store takes the modified paths.
SaveOk(r) ==
  /\ Present
  /\ store' = SaveInto(store, doc[r])

\* save() throws: the record is gone, or the store cannot be reached.
SaveErr == UNCHANGED store

Emit(r, es) == events' = [events EXCEPT ![r] = @ \o es]

\* ------------------------------------------- processVideo checkpoints
\* The checkpoints with the fourth still published in status processing.
CheckpointLate(progress) ==
  CASE progress = 10 -> Update(10, "Validating file...", "processing")
    [] progress = 30 -> Update(30, "Extracting metadata...", "processing")
    [] progress = 50 -> Update(50, "Generating thumbnail...", "processing")
    [] progress = 70 -> Update(70, "Preparing for streaming...", "processing")
    [] progress = 90 -> Update(90, "Finalizing...", "analyzing")

Checkpoint(progress) ==
  CASE progress = 10 -> Update(10, "Validating file...", "processing")
    [] progress = 30 -> Update(30, "Extracting metadata...", "processing")
    [] progress = 50 -> Update(50, "Generating thumbnail...", "processing")
    [] progress = 70 -> Update(70, "Preparing for streaming...", "analyzing")
    [] progress = 90 -> Update(90, "Finalizing...", "analyzing")

\* One stage opening of processVideo: the event is emitted, then the document
\* is changed and its save() is issued.
OpenStage(r, progress, next) ==
  LET e == Checkpoint(progress)
  IN /\ Emit(r, <<e>>)
     /\ doc' = [doc EXCEPT ![r] = updateProgress(@, e.progress, e.message, e.status)]
     /\ pc' = [pc EXCEPT ![r] = next]

\* The catch block of processVideoAsync, up to its save().
\* The handler clearing the probed duration as well.
ProcCatchRollingBack(d, msg) ==
  SetField(SetField(SetField(SetField(d, "status", "failed"),
                             "errorMessage", Some(msg)),
                    "processingMessage", "Processing failed: " \o msg),
           "duration", Null)

ProcCatch(d, msg) ==
  SetField(SetField(SetField(d, "status", "failed"),
                    "errorMessage", Some(msg)),
           "processingMessage", "Processing failed: " \o msg)

ThrowToProcCatch(r, d, msg) ==
  /\ doc' = [doc EXCEPT ![r] = ProcCatch(d, msg)]
  /\ caught' = [caught EXCEPT ![r] = msg]
  /\ pc' = [pc EXCEPT ![r] = "pcatch"]

\* uploadVideo: the record is created; processVideoAsync is called and runs,
\* unawaited, up to the first save() of processVideo; then the response is built
\* from the same in-memory document.
uploadVideo ==
  /\ recordState = "none"
  /\ recordState' = "present"
  /\ store' = NewVideo
  /\ Emit(UploadRun, <<Signal("upload:complete", "Upload complete, processing started"),
                       Checkpoint(10)>>)
  /\ doc' = [doc EXCEPT ![UploadRun] =
               updateProgress(Document(NewVideo), 10, "Validating file...", "processing")]
  /\ pc' = [pc EXCEPT ![UploadRun] = "s10"]
  /\ uploadResponse' = Some([status |-> doc'[UploadRun].val.status,
                             processingProgress |-> doc'[UploadRun].val.processingProgress])
  /\ UNCHANGED <<views, fileExists, caught, rejected>>
  /\ UNCHANGED <<streams, downloads, request, response, pendingViews, scoreVector, classified,
               requester,
               sockets, connectedUsers, deliveries, caller, visibility,
               accessResponse, library, job>>

\* Stage 1: the save of checkpoint 10 returns, then the file is looked for.
ValidateFile ==
  /\ pc[UploadRun] = "s10"
  /\ \/ /\ SaveOk(UploadRun)
        /\ IF fileExists
             THEN /\ doc' = [doc EXCEPT ![UploadRun] = Saved(@)]
                  /\ pc' = [pc EXCEPT ![UploadRun] = "d10"]
                  /\ UNCHANGED caught
             ELSE ThrowToProcCatch(UploadRun, Saved(doc[UploadRun]), "Video file not found")
     \/ /\ SaveErr
        /\ ThrowToProcCatch(UploadRun, doc[UploadRun], SaveErrorMessage)
  /\ UNCHANGED <<recordState, views, fileExists, events, rejected, uploadResponse>>
  /\ UNCHANGED <<streams, downloads, request, response, pendingViews, scoreVector, classified,
               requester,
               sockets, connectedUsers, deliveries, caller, visibility,
               accessResponse, library, job>>

\* A stage of processVideo opens after the delay that ends the stage before it.
StageOpens(from, progress, to) ==
  /\ pc[UploadRun] = from
  /\ OpenStage(UploadRun, progress, to)
  /\ UNCHANGED <<recordState, store, fileExists, caught, rejected>>
  /\ UNCHANGED <<views, uploadResponse>>
  /\ UNCHANGED <<streams, downloads, request, response, pendingViews, scoreVector, classified,
               requester,
               sockets, connectedUsers, deliveries, caller, visibility,
               accessResponse, library, job>>

\* The save() of a checkpoint of processVideo returns; an exception goes through
\* processVideo's catch, which rethrows it, to the catch of processVideoAsync.
StageSaved(from, to) ==
  /\ pc[UploadRun] = from
  /\ \/ /\ SaveOk(UploadRun)
        /\ doc' = [doc EXCEPT ![UploadRun] = Saved(@)]
        /\ pc' = [pc EXCEPT ![UploadRun] = to]
        /\ UNCHANGED caught
     \/ /\ SaveErr
        /\ ThrowToProcCatch(UploadRun, doc[UploadRun], SaveErrorMessage)
  /\ UNCHANGED <<recordState, fileExists, events, rejected>>
  /\ UNCHANGED <<views, uploadResponse>>
  /\ UNCHANGED <<streams, downloads, request, response, pendingViews, scoreVector, classified,
               requester,
               sockets, connectedUsers, deliveries, caller, visibility,
               accessResponse, library, job>>

\* Stage 2
ExtractMetadata == StageOpens("d10", 30, "s30")

MetadataSaved == StageSaved("s30", "probe")

\* getVideoMetadata resolves: with the probed values, or with nulls when ffprobe
\* fails, exits non-zero or prints no JSON.
ProbeResults ==
  {[duration |-> Null, width |-> Null, height |-> Null],
   [duration |-> Some(12), width |-> Some(640), height |-> Some(360)]}

ProbeDone ==
  /\ pc[UploadRun] = "probe"
  /\ \E metadata \in ProbeResults :
       doc' = [doc EXCEPT ![UploadRun] =
                 SetField(SetField(@, "duration", metadata.duration),
                          "resolution",
                          [width |-> metadata.width, height |-> metadata.height])]
  /\ pc' = [pc EXCEPT ![UploadRun] = "d30"]
  /\ UNCHANGED <<recordState, store, fileExists, events, caught, rejected>>
  /\ UNCHANGED <<views, uploadResponse>>
  /\ UNCHANGED <<streams, downloads, request, response, pendingViews, scoreVector, classified,
               requester,
               sockets, connectedUsers, deliveries, caller, visibility,
               accessResponse, library, job>>

\* Stage 3
GenerateThumbnail == StageOpens("d30", 50, "s50")

ThumbnailSaved == StageSaved("s50", "thumb")

\* generateThumbnail resolves: with the path, or with null.
\* generateThumbnail rejecting when no thumbnail was written.
ThumbnailDoneFatal ==
  /\ pc[UploadRun] = "thumb"
  /\ \E thumbnail \in {Null, Some("thumb.jpg")} :
       IF thumbnail # Null
         THEN /\ doc' = [doc EXCEPT ![UploadRun] = SetField(@, "thumbnail", thumbnail)]
              /\ pc' = [pc EXCEPT ![UploadRun] = "d50"]
              /\ UNCHANGED caught
         ELSE ThrowToProcCatch(UploadRun, doc[UploadRun], "Thumbnail generation failed")
  /\ UNCHANGED <<recordState, store, fileExists, events, rejected>>
  /\ UNCHANGED <<views, uploadResponse>>
  /\ UNCHANGED <<streams, downloads, request, response, pendingViews, scoreVector, classified,
               requester,
               sockets, connectedUsers, deliveries, caller, visibility,
               accessResponse, library, job>>

ThumbnailDone ==
  /\ pc[UploadRun] = "thumb"
  /\ \E thumbnail \in {Null, Some("thumb.jpg")} :
       doc' = [doc EXCEPT ![UploadRun] =
                 IF thumbnail # Null THEN SetField(@, "thumbnail", thumbnail) ELSE @]
  /\ pc' = [pc EXCEPT ![UploadRun] = "d50"]
  /\ UNCHANGED <<recordState, store, fileExists, events, caught, rejected>>
  /\ UNCHANGED <<views, uploadResponse>>
  /\ UNCHANGED <<streams, downloads, request, response, pendingViews, scoreVector, classified,
               requester,
               sockets, connectedUsers, deliveries, caller, visibility,
               accessResponse, library, job>>

\* Stage 4
PrepareStreaming == StageOpens("d50", 70, "s70")

StreamingSaved ==
  /\ pc[UploadRun] = "s70"
  /\ \/ /\ SaveOk(UploadRun)
        /\ doc' = [doc EXCEPT ![UploadRun] =
                     SetField(Saved(@), "streamingUrl", Some("/api/videos/id/stream"))]
        /\ pc' = [pc EXCEPT ![UploadRun] = "d70"]
        /\ UNCHANGED caught
     \/ /\ SaveErr
        /\ ThrowToProcCatch(UploadRun, doc[UploadRun], SaveErrorMessage)
  /\ UNCHANGED <<recordState, fileExists, events, rejected>>
  /\ UNCHANGED <<views, uploadResponse>>
  /\ UNCHANGED <<streams, downloads, request, response, pendingViews, scoreVector, classified,
               requester,
               sockets, connectedUsers, deliveries, caller, visibility,
               accessResponse, library, job>>

\* Stage 5
Finalize == StageOpens("d70", 90, "s90")

FinalizeSaved == StageSaved("s90", "d90")

\* ------------------------------------------------------ analyzeVideo
\* The opening of analyzeVideo, up to its first save().
AnalysisOpening ==
  <<Signal("sensitivity:start", "Starting sensitivity analysis..."),
    Update(92, "Analyzing content for sensitivity...", "analyzing")>>

OpenAnalysis(r, d) ==
  /\ Emit(r, AnalysisOpening)
  /\ doc' = [doc EXCEPT ![r] =
               updateProgress(d, 92, "Analyzing content for sensitivity...", "analyzing")]
  /\ pc' = [pc EXCEPT ![r] = "s92"]

\* The catch block of analyzeVideo, up to its save().
AnalyzeCatch(d, msg) ==
  SetField(SetField(SetField(d, "sensitivityStatus", "error"),
                    "status", "failed"),
           "errorMessage", Some(msg))

ThrowToAnalyzeCatch(r, d, msg) ==
  /\ doc' = [doc EXCEPT ![r] = AnalyzeCatch(d, msg)]
  /\ caught' = [caught EXCEPT ![r] = msg]
  /\ pc' = [pc EXCEPT ![r] = "acatch"]

\* processVideo has returned; processVideoAsync calls analyzeVideo.
StartAnalysis ==
  /\ pc[UploadRun] = "d90"
  /\ OpenAnalysis(UploadRun, doc[UploadRun])
  /\ UNCHANGED <<recordState, store, fileExists, caught, rejected>>
  /\ UNCHANGED <<views, uploadResponse>>
  /\ UNCHANGED <<streams, downloads, request, response, pendingViews, scoreVector, classified,
               requester,
               sockets, connectedUsers, deliveries, caller, visibility,
               accessResponse, library, job>>

AnalysisSaved(r) ==
  /\ pc[r] = "s92"
  /\ \/ /\ SaveOk(r)
        /\ doc' = [doc EXCEPT ![r] = Saved(@)]
        /\ pc' = [pc EXCEPT ![r] = "d92"]
        /\ UNCHANGED caught
     \/ /\ SaveErr
        /\ ThrowToAnalyzeCatch(r, doc[r], SaveErrorMessage)
  /\ UNCHANGED <<recordState, fileExists, events, rejected>>
  /\ UNCHANGED <<views, uploadResponse>>
  /\ UNCHANGED <<streams, downloads, request, response, pendingViews, scoreVector, classified,
               requester,
               sockets, connectedUsers, deliveries, caller, visibility,
               accessResponse, library, job>>

\* performAnalysis has resolved; checkpoint 96 is emitted and nothing is saved.
\* (The scores are drawn in MergeAnalysis, where they are first used.)
ReportAnalysis(r) ==
  /\ pc[r] = "d92"
  /\ Emit(r, <<Update(96, "Generating sensitivity report...", "analyzing")>>)
  /\ pc' = [pc EXCEPT ![r] = "d96"]
  /\ UNCHANGED <<recordState, store, fileExists, doc, caught, rejected>>
  /\ UNCHANGED <<views, uploadResponse>>
  /\ UNCHANGED <<streams, downloads, request, response, pendingViews, scoreVector, classified,
               requester,
               sockets, connectedUsers, deliveries, caller, visibility,
               accessResponse, library, job>>

CompletedMessage(sensitivityStatus) ==
  IF sensitivityStatus = "safe"
    THEN "Video processed successfully - Content is safe"
    ELSE "Video processed - Content flagged for review"

\* The classification is merged into the document (lines 69-83 of analyzeVideo).
Merged(d, c) ==
  LET d1 == SetField(d, "sensitivityDetails", Some(c.details))
      d2 == SetField(d1, "sensitivityScore", Some(c.score))
      d3 == SetField(d2, "sensitivityStatus", c.status)
      d4 == SetField(d3, "sensitivityReasons", c.reasons)
      d5 == SetField(d4, "status", "completed")
      d6 == SetField(d5, "processingProgress", 100)
  IN SetField(d6, "processingMessage", CompletedMessage(c.status))

MergeAnalysis(r) ==
  /\ pc[r] = "d96"
  /\ \E scores \in SampleScores :
       \E c \in {Classify(scores)} :
         doc' = [doc EXCEPT ![r] = Merged(@, c)]
  /\ pc' = [pc EXCEPT ![r] = "s100"]
  /\ UNCHANGED <<recordState, store, fileExists, events, caught, rejected>>
  /\ UNCHANGED <<views, uploadResponse>>
  /\ UNCHANGED <<streams, downloads, request, response, pendingViews, scoreVector, classified,
               requester,
               sockets, connectedUsers, deliveries, caller, visibility,
               accessResponse, library, job>>

\* What analyzeVideo emits once the merged document is saved.
Completion(d) ==
  <<Update(100, d.val.processingMessage, "completed"),
    Signal("sensitivity:complete", d.val.sensitivityStatus),
    Signal("video:ready", "")>>

AnalysisCompleted(r) ==
  /\ pc[r] = "s100"
  /\ \/ /\ SaveOk(r)
        /\ doc' = [doc EXCEPT ![r] = Saved(@)]
        /\ Emit(r, Completion(doc[r]))
        /\ pc' = [pc EXCEPT ![r] = "done"]
        /\ UNCHANGED caught
     \/ /\ SaveErr
        /\ ThrowToAnalyzeCatch(r, doc[r], SaveErrorMessage)
        /\ UNCHANGED events
  /\ UNCHANGED <<recordState, fileExists, rejected>>
  /\ UNCHANGED <<views, uploadResponse>>
  /\ UNCHANGED <<streams, downloads, request, response, pendingViews, scoreVector, classified,
               requester,
               sockets, connectedUsers, deliveries, caller, visibility,
               accessResponse, library, job>>

ErrorEvent(msg) == Signal("processing:error", msg)

\* The save() in analyzeVideo's catch returns; the error, or the error of that
\* save, is thrown on: to processVideoAsync's catch in the upload run, to the
\* controller's .catch(console.error) in a reanalysis run.
AnalyzeCatchSaved(r) ==
  /\ pc[r] = "acatch"
  /\ \/ /\ SaveOk(r)
        /\ Emit(r, <<ErrorEvent(caught[r])>>)
        /\ IF r = UploadRun
             THEN ThrowToProcCatch(r, Saved(doc[r]), caught[r])
             ELSE /\ doc' = [doc EXCEPT ![r] = Saved(@)]
                  /\ pc' = [pc EXCEPT ![r] = "done"]
                  /\ UNCHANGED caught
     \/ /\ SaveErr
        /\ UNCHANGED events
        /\ IF r = UploadRun
             THEN ThrowToProcCatch(r, doc[r], SaveErrorMessage)
             ELSE /\ pc' = [pc EXCEPT ![r] = "done"]
                  /\ caught' = [caught EXCEPT ![r] = SaveErrorMessage]
                  /\ UNCHANGED doc
  /\ UNCHANGED <<recordState, fileExists, rejected>>
  /\ UNCHANGED <<views, uploadResponse>>
  /\ UNCHANGED <<streams, downloads, request, response, pendingViews, scoreVector, classified,
               requester,
               sockets, connectedUsers, deliveries, caller, visibility,
               accessResponse, library, job>>

\* The save() in processVideoAsync's catch returns; when it throws, the promise
\* of processVideoAsync, which nobody awaits, is rejected.
ProcCatchSaved ==
  /\ pc[UploadRun] = "pcatch"
  /\ \/ /\ SaveOk(UploadRun)
        /\ doc' = [doc EXCEPT ![UploadRun] = Saved(@)]
        /\ Emit(UploadRun, <<ErrorEvent(caught[UploadRun])>>)
        /\ UNCHANGED rejected
     \/ /\ SaveErr
        /\ rejected' = TRUE
        /\ UNCHANGED <<doc, events>>
  /\ pc' = [pc EXCEPT ![UploadRun] = "done"]
  /\ UNCHANGED <<recordState, fileExists, caught>>
  /\ UNCHANGED <<views, uploadResponse>>
  /\ UNCHANGED <<streams, downloads, request, response, pendingViews, scoreVector, classified,
               requester,
               sockets, connectedUsers, deliveries, caller, visibility,
               accessResponse, library, job>>

\* -------------------------------------------------------- reanalysis
\* The controller: the video is found (the requester is an admin of its
\* organization), the service is called without being awaited, and the
\* request is answered.  No status is looked at.
reanalyzeVideo(r) ==
  /\ r # UploadRun
  /\ pc[r] = "idle"
  /\ \A q \in 1..(r - 1) : pc[q] # "idle"
  /\ Present
  /\ pc' = [pc EXCEPT ![r] = "find"]
  /\ UNCHANGED <<recordState, store, fileExists, doc, events, caught, rejected>>
  /\ UNCHANGED <<views, uploadResponse>>
  /\ UNCHANGED <<streams, downloads, request, response, pendingViews, scoreVector, classified,
               requester,
               sockets, connectedUsers, deliveries, caller, visibility,
               accessResponse, library, job>>

\* A reset of the progress alone.
ResetProgress(d) == SetField(d, "processingProgress", 90)

\* The reset reanalyzeVideo makes on the document it has loaded.
Reset(d) ==
  SetField(SetField(SetField(d, "sensitivityStatus", "pending"),
                    "status", "analyzing"),
           "processingProgress", 90)

\* The service: findById returns, the document is reset and its save() issued.
ReanalysisFound(r) ==
  /\ pc[r] = "find"
  /\ IF Present
       THEN /\ doc' = [doc EXCEPT ![r] = Reset(Document(store))]
            /\ pc' = [pc EXCEPT ![r] = "reset"]
            /\ UNCHANGED caught
       ELSE /\ caught' = [caught EXCEPT ![r] = "Video not found"]
            /\ pc' = [pc EXCEPT ![r] = "done"]
            /\ UNCHANGED doc
  /\ UNCHANGED <<recordState, store, fileExists, events, rejected>>
  /\ UNCHANGED <<views, uploadResponse>>
  /\ UNCHANGED <<streams, downloads, request, response, pendingViews, scoreVector, classified,
               requester,
               sockets, connectedUsers, deliveries, caller, visibility,
               accessResponse, library, job>>

\* The save() of the reset returns and analyzeVideo is entered; an exception
\* of this save is outside analyzeVideo's try and ends the run.
ReanalysisReset(r) ==
  /\ pc[r] = "reset"
  /\ \/ /\ SaveOk(r)
        /\ OpenAnalysis(r, Saved(doc[r]))
        /\ UNCHANGED caught
     \/ /\ SaveErr
        /\ caught' = [caught EXCEPT ![r] = SaveErrorMessage]
        /\ pc' = [pc EXCEPT ![r] = "done"]
        /\ UNCHANGED <<doc, events>>
  /\ UNCHANGED <<recordState, fileExists, rejected>>
  /\ UNCHANGED <<views, uploadResponse>>
  /\ UNCHANGED <<streams, downloads, request, response, pendingViews, scoreVector, classified,
               requester,
               sockets, connectedUsers, deliveries, caller, visibility,
               accessResponse, library, job>>

\* ---------------------------------------------------------- deletion
\* deleteVideo, by the owner or an admin: the files are unlinked and deleteOne
\* is issued ...
deleteVideo ==
  /\ recordState = "present"
  /\ recordState' = "deleting"
  /\ fileExists' = FALSE
  /\ UNCHANGED <<store, pc, doc, events, caught, rejected>>
  /\ UNCHANGED <<views, uploadResponse>>
  /\ UNCHANGED <<streams, downloads, request, response, pendingViews, scoreVector, classified,
               requester,
               sockets, connectedUsers, deliveries, caller, visibility,
               accessResponse, library, job>>

\* ... and deleteOne removes the record.
VideoDeleted ==
  /\ recordState = "deleting"
  /\ recordState' = "deleted"
  /\ UNCHANGED <<store, fileExists, pc, doc, events, caught, rejected>>
  /\ UNCHANGED <<views, uploadResponse>>
  /\ UNCHANGED <<streams, downloads, request, response, pendingViews, scoreVector, classified,
               requester,
               sockets, connectedUsers, deliveries, caller, visibility,
               accessResponse, library, job>>

\* ------------------------------------------------------- streaming
\* A Range header "bytes=<start>-<end>" or "bytes=<start>-": its two parts.
RangeHeader(start, end) == [start |-> start, end |-> end]

\* The range streamVideo works with: parts[1] ? parseInt(parts[1]) : fileSize - 1.
ParsedRange(range, fileSize) ==
  [start |-> range.start,
   end |-> IF range.end = Null THEN fileSize - 1 ELSE range.end[1]]

\* The bytes fs.createReadStream(path, {start, end}) delivers from a file of
\* fileSize bytes: it reads to the end of the file at most.
StreamedBytes(fileSize, start, end) ==
  IF start >= fileSize THEN 0
  ELSE (IF end < fileSize - 1 THEN end ELSE fileSize - 1) - start + 1

\* streamVideo refusing a start only beyond the file size, not at it.
streamVideoResponseBeyond(fileSize, range) ==
  IF range = Null
    THEN [code |-> 200, bytes |-> fileSize, contentRange |-> Null,
          contentLength |-> Some(fileSize), fileSize |-> Null,
          viewScheduled |-> TRUE]
    ELSE LET parsed == ParsedRange(range[1], fileSize)
             start == parsed.start
             end == parsed.end
         IN IF start > fileSize
              THEN [code |-> 416, bytes |-> 0, contentRange |-> Null,
                    contentLength |-> Null, fileSize |-> Some(fileSize),
                    viewScheduled |-> FALSE]
              ELSE IF start > end
                THEN [code |-> 500, bytes |-> 0, contentRange |-> Null,
                      contentLength |-> Null, fileSize |-> Null,
                      viewScheduled |-> FALSE]
                ELSE [code |-> 206,
                      bytes |-> StreamedBytes(fileSize, start, end),
                      contentRange |-> Some([start |-> start, end |-> end,
                                             total |-> fileSize]),
                      contentLength |-> Some((end - start) + 1),
                      fileSize |-> Null,
                      viewScheduled |-> TRUE]

\* StreamingService.streamVideo on an existing file of fileSize bytes.
\* createReadStream throws when start > end, before any header is written; the
\* exception reaches the error handler, which answers 500.
streamVideoResponse(fileSize, range) ==
  IF range = Null
    THEN [code |-> 200, bytes |-> fileSize, contentRange |-> Null,
          contentLength |-> Some(fileSize), fileSize |-> Null,
          viewScheduled |-> TRUE]
    ELSE LET parsed == ParsedRange(range[1], fileSize)
             start == parsed.start
             end == parsed.end
             chunkSize == (end - start) + 1
         IN IF start >= fileSize
              THEN [code |-> 416, bytes |-> 0, contentRange |-> Null,
                    contentLength |-> Null, fileSize |-> Some(fileSize),
                    viewScheduled |-> FALSE]
              ELSE IF start > end
                THEN [code |-> 500, bytes |-> 0, contentRange |-> Null,
                      contentLength |-> Null, fileSize |-> Null,
                      viewScheduled |-> FALSE]
                ELSE [code |-> 206,
                      bytes |-> StreamedBytes(fileSize, start, end),
                      contentRange |-> Some([start |-> start, end |-> end,
                                             total |-> fileSize]),
                      contentLength |-> Some(chunkSize),
                      fileSize |-> Null,
                      viewScheduled |-> TRUE]

ErrorResponse(code) ==
  [code |-> code, bytes |-> 0, contentRange |-> Null, contentLength |-> Null,
   fileSize |-> Null, viewScheduled |-> FALSE]

Answer(kind, statusSeen, r) ==
  [kind |-> kind, code |-> r.code, statusSeen |-> statusSeen, bytes |-> r.bytes,
   contentRange |-> r.contentRange, contentLength |-> r.contentLength,
   fileSize |-> r.fileSize, viewScheduled |-> r.viewScheduled]

\* The Range headers the requests of this specification carry.
RequestRanges ==
  {Null, Some(RangeHeader(0, Some(1))), Some(RangeHeader(1, Null)),
   Some(RangeHeader(FileSize, Null))}

\* A request arrives and findById reads the store.
Requested(kind, range) ==
  /\ request.kind = "none"
  /\ request' = [kind |-> kind, found |-> Present,
                 status |-> IF Present THEN store.status ELSE "", range |-> range,
                 size |-> FileSize]

\* The controller without its check of the status.
streamVideoUngated ==
  IF ~request.found THEN Answer("stream", "", ErrorResponse(404))
  ELSE IF ~fileExists
    THEN Answer("stream", request.status, ErrorResponse(404))
    ELSE Answer("stream", request.status,
                streamVideoResponse(request.size, request.range))

\* The stream controller, from findById's answer on: 404 for no video, 400 for
\* a video that is not completed, else StreamingService.streamVideo.
streamVideo ==
  IF ~request.found THEN Answer("stream", "", ErrorResponse(404))
  ELSE IF request.status # "completed"
    THEN Answer("stream", request.status, ErrorResponse(400))
    ELSE IF ~fileExists
      THEN Answer("stream", request.status, ErrorResponse(404))
      ELSE Answer("stream", request.status,
                  streamVideoResponse(request.size, request.range))

\* The download controller, from findById's answer on, for a requester with
\* the owner, admin or edit permission: StreamingService.downloadVideo.
downloadVideo ==
  IF ~request.found THEN Answer("download", "", ErrorResponse(404))
  ELSE IF ~fileExists
    THEN Answer("download", request.status, ErrorResponse(404))
    ELSE Answer("download", request.status,
                [code |-> 200, bytes |-> FileSize, contentRange |-> Null,
                 contentLength |-> Some(FileSize), fileSize |-> Null,
                 viewScheduled |-> FALSE])

StreamRequested ==
  /\ streams < MaxStreams
  /\ \E range \in RequestRanges : Requested("stream", range)
  /\ streams' = streams + 1
  /\ UNCHANGED <<recordState, store, fileExists, pc, doc, events, caught, rejected,
               scoreVector, classified, requester,
               sockets, connectedUsers, deliveries, caller, visibility,
               accessResponse, library, job>>
  /\ UNCHANGED <<views, uploadResponse, downloads, response, pendingViews>>

\* The stream controller counting a view for every answer, errors included.
StreamAnsweredCountingAll ==
  /\ request.kind = "stream"
  /\ response' = streamVideo
  /\ pendingViews' = pendingViews + 1
  /\ request' = NoRequest
  /\ UNCHANGED <<recordState, store, fileExists, pc, doc, events, caught, rejected,
               scoreVector, classified, requester,
               sockets, connectedUsers, deliveries, caller, visibility,
               accessResponse, library, job>>
  /\ UNCHANGED <<views, uploadResponse, streams, downloads>>

StreamAnswered ==
  /\ request.kind = "stream"
  /\ response' = streamVideo
  /\ pendingViews' = IF response'.viewScheduled THEN pendingViews + 1 ELSE pendingViews
  /\ request' = NoRequest
  /\ UNCHANGED <<recordState, store, fileExists, pc, doc, events, caught, rejected,
               scoreVector, classified, requester,
               sockets, connectedUsers, deliveries, caller, visibility,
               accessResponse, library, job>>
  /\ UNCHANGED <<views, uploadResponse, streams, downloads>>

\* incrementViewCount: findByIdAndUpdate adds one to the stored counter, does
\* nothing when the record is gone, and an exception of it is only logged.
ViewCounted ==
  /\ pendingViews > 0
  /\ pendingViews' = pendingViews - 1
  /\ \/ views' = IF Present THEN views + 1 ELSE views
     \/ UNCHANGED views
  /\ UNCHANGED <<recordState, store, fileExists, pc, doc, events, caught, rejected,
               scoreVector, classified, requester,
               sockets, connectedUsers, deliveries, caller, visibility,
               accessResponse, library, job>>
  /\ UNCHANGED <<uploadResponse, streams, downloads, request, response>>

DownloadRequested ==
  /\ downloads < MaxDownloads
  /\ Requested("download", Null)
  /\ downloads' = downloads + 1
  /\ UNCHANGED <<recordState, store, fileExists, pc, doc, events, caught, rejected,
               scoreVector, classified, requester,
               sockets, connectedUsers, deliveries, caller, visibility,
               accessResponse, library, job>>
  /\ UNCHANGED <<views, uploadResponse, streams, response, pendingViews>>

DownloadAnswered ==
  /\ request.kind = "download"
  /\ response' = downloadVideo
  /\ request' = NoRequest
  /\ UNCHANGED <<recordState, store, fileExists, pc, doc, events, caught, rejected,
               scoreVector, classified, requester,
               sockets, connectedUsers, deliveries, caller, visibility,
               accessResponse, library, job>>
  /\ UNCHANGED <<views, uploadResponse, streams, downloads, pendingViews>>

ServeNext ==
  \/ StreamRequested
  \/ StreamAnswered
  \/ ViewCounted
  \/ DownloadRequested
  \/ DownloadAnswered

\* The upload-triggered run alone, with deletion.
UploadNext ==
  \/ uploadVideo
  \/ ValidateFile
  \/ ExtractMetadata
  \/ MetadataSaved
  \/ ProbeDone
  \/ GenerateThumbnail
  \/ ThumbnailSaved
  \/ ThumbnailDone
  \/ PrepareStreaming
  \/ StreamingSaved
  \/ Finalize
  \/ FinalizeSaved
  \/ StartAnalysis
  \/ AnalysisSaved(UploadRun)
  \/ ReportAnalysis(UploadRun)
  \/ MergeAnalysis(UploadRun)
  \/ AnalysisCompleted(UploadRun)
  \/ AnalyzeCatchSaved(UploadRun)
  \/ ProcCatchSaved
  \/ deleteVideo
  \/ VideoDeleted

PipelineNext ==
  \/ uploadVideo
  \/ ValidateFile
  \/ ExtractMetadata
  \/ MetadataSaved
  \/ ProbeDone
  \/ GenerateThumbnail
  \/ ThumbnailSaved
  \/ ThumbnailDone
  \/ PrepareStreaming
  \/ StreamingSaved
  \/ Finalize
  \/ FinalizeSaved
  \/ StartAnalysis
  \/ \E r \in Runs : AnalysisSaved(r)
  \/ \E r \in Runs : ReportAnalysis(r)
  \/ \E r \in Runs : MergeAnalysis(r)
  \/ \E r \in Runs : AnalysisCompleted(r)
  \/ \E r \in Runs : AnalyzeCatchSaved(r)
  \/ ProcCatchSaved
  \/ \E r \in Runs : reanalyzeVideo(r)
  \/ \E r \in Runs : ReanalysisFound(r)
  \/ \E r \in Runs : ReanalysisReset(r)
  \/ deleteVideo
  \/ VideoDeleted

Next == PipelineNext

\* The upload-triggered run and the requests served beside it.
GateNext == UploadNext \/ ServeNext

GateSpec == Init /\ [][GateNext]_vars

UploadSpec == Init /\ [][UploadNext]_vars

Spec == Init /\ [][Next]_vars

\* The steps of run r the event loop takes by itself once they are enabled: the
\* continuations of its saves, delays and reads. The exit of the probe and of
\* the thumbnail subprocess is not among them: nothing in the code bounds it.
RunStep(r) ==
  \/ /\ r = UploadRun
     /\ \/ ValidateFile
        \/ ExtractMetadata
        \/ MetadataSaved
        \/ GenerateThumbnail
        \/ ThumbnailSaved
        \/ PrepareStreaming
        \/ StreamingSaved
        \/ Finalize
        \/ FinalizeSaved
        \/ StartAnalysis
        \/ ProcCatchSaved
  \/ AnalysisSaved(r)
  \/ ReportAnalysis(r)
  \/ MergeAnalysis(r)
  \/ AnalysisCompleted(r)
  \/ AnalyzeCatchSaved(r)
  \/ ReanalysisFound(r)
  \/ ReanalysisReset(r)

FairSpec ==
  /\ Init
  /\ [][Next]_vars
  /\ \A r \in Runs : WF_vars(RunStep(r))
  /\ WF_vars(VideoDeleted)

\* The upload-triggered run alone, under the same scheduling.
FairUploadSpec ==
  /\ Init
  /\ [][UploadNext]_vars
  /\ WF_vars(RunStep(UploadRun))
  /\ WF_vars(VideoDeleted)

\* Upload, reanalysis and deletion with stream requests served beside them.
ViewNext == PipelineNext \/ StreamRequested \/ StreamAnswered \/ ViewCounted

ViewSpec == Init /\ [][ViewNext]_vars

\* ---------------------------------------------------- the upload route
\* POST /upload: authenticate lets every active user through, whatever the
\* role, and no other middleware of the route looks at the role.
Roles == {"viewer", "editor", "admin"}

RouteInit ==
  /\ requester \in Roles
  /\ scoreVector = Uniform(0)
  /\ classified = Null
  /\ recordState = "none"
  /\ store = NewVideo
  /\ views = 0
  /\ fileExists = TRUE
  /\ pc = [r \in Runs |-> "idle"]
  /\ doc = [r \in Runs |-> Document(NewVideo)]
  /\ events = [r \in Runs |-> <<>>]
  /\ caught = [r \in Runs |-> ""]
  /\ rejected = FALSE
  /\ uploadResponse = Null
  /\ streams = 0
  /\ downloads = 0
  /\ request = NoRequest
  /\ response = NoResponse
  /\ pendingViews = 0
  /\ SocketsIdle
  /\ AccessIdle
  /\ PairIdle

RouteSpec == RouteInit /\ [][UploadNext]_vars

\* ------------------------------------------------------ the classifier
\* The classification of every score vector whose entries are 0, one below
\* the category's threshold, the threshold, or MaxScore, and of the vectors
\* the pipeline is run with.
ScoreLevels(c) == {0, thresholds[c] - 1, thresholds[c], MaxScore}

\* The vectors whose entries are all within one of the lowest or of the
\* highest score.
EdgeVectors ==
  UNION {[violence : L, adult : L, hate : L, drugs : L, language : L] :
           L \in {{0, 1}, {MaxScore - 1, MaxScore}}}

ScoreVectors ==
  [violence : ScoreLevels("violence"), adult : ScoreLevels("adult"),
   hate : ScoreLevels("hate"), drugs : ScoreLevels("drugs"),
   language : ScoreLevels("language")] \cup SampleScores \cup EdgeVectors

ClassifierInit ==
  /\ scoreVector \in ScoreVectors
  /\ classified = Null
  /\ requester = "editor"
  /\ recordState = "none"
  /\ store = NewVideo
  /\ views = 0
  /\ fileExists = TRUE
  /\ pc = [r \in Runs |-> "idle"]
  /\ doc = [r \in Runs |-> Document(NewVideo)]
  /\ events = [r \in Runs |-> <<>>]
  /\ caught = [r \in Runs |-> ""]
  /\ rejected = FALSE
  /\ uploadResponse = Null
  /\ streams = 0
  /\ downloads = 0
  /\ request = NoRequest
  /\ response = NoResponse
  /\ pendingViews = 0
  /\ SocketsIdle
  /\ AccessIdle
  /\ PairIdle

Classified ==
  /\ classified = Null
  /\ classified' = Some(Classify(scoreVector))
  /\ UNCHANGED <<recordState, store, fileExists, pc, doc, events, caught, rejected>>
  /\ UNCHANGED <<views, uploadResponse, streams, downloads, request, response>>
  /\ UNCHANGED <<pendingViews, scoreVector, requester,
               sockets, connectedUsers, deliveries, caller, visibility,
               accessResponse, library, job>>

ClassifierNext == Classified

ClassifierSpec == ClassifierInit /\ [][ClassifierNext]_vars

\* ------------------------------------------------ the range arithmetic
\* streamVideo on every file size up to FileSize and every header
\* "bytes=<start>-<end>" / "bytes=<start>-" with positions up to FileSize + 1.
RangeRequested ==
  /\ request.kind = "none"
  /\ response.kind = "none"
  /\ \E size \in 1..FileSize, start \in 0..(FileSize + 1),
        end \in {Null} \cup {Some(e) : e \in 0..(FileSize + 1)} :
       request' = [kind |-> "range", found |-> TRUE, status |-> "completed",
                   range |-> Some(RangeHeader(start, end)), size |-> size]
  /\ UNCHANGED <<recordState, store, fileExists, pc, doc, events, caught, rejected,
               scoreVector, classified, requester,
               sockets, connectedUsers, deliveries, caller, visibility,
               accessResponse, library, job>>
  /\ UNCHANGED <<views, uploadResponse, streams, downloads, response, pendingViews>>

RangeAnswered ==
  /\ request.kind = "range"
  /\ response.kind = "none"
  /\ response' = Answer("stream", request.status,
                        streamVideoResponse(request.size, request.range))
  /\ UNCHANGED <<recordState, store, fileExists, pc, doc, events, caught, rejected,
               scoreVector, classified, requester,
               sockets, connectedUsers, deliveries, caller, visibility,
               accessResponse, library, job>>
  /\ UNCHANGED <<views, uploadResponse, streams, downloads, request, pendingViews>>

RangeNext == RangeRequested \/ RangeAnswered

RangeSpec == Init /\ [][RangeNext]_vars

\* ---------------------------------------------------------- sockets
\* io.on('connection'): the socket is stored under its user, in place of the
\* one stored before, and joins the user's room.
Connected(u, s) ==
  /\ s \notin sockets[u]
  /\ sockets' = [sockets EXCEPT ![u] = @ \cup {s}]
  /\ connectedUsers' = [connectedUsers EXCEPT ![u] = Some(s)]
  /\ UNCHANGED deliveries
  /\ UNCHANGED <<recordState, store, fileExists, pc, doc, events, caught, rejected>>
  /\ UNCHANGED <<views, uploadResponse, streams, downloads, request, response>>
  /\ UNCHANGED <<pendingViews, scoreVector, classified, requester>>
  /\ UNCHANGED <<caller, visibility, accessResponse, library, job>>

\* socket.on('disconnect'): the entry of the socket's user is deleted,
\* whichever socket it holds.
Disconnected(u, s) ==
  /\ s \in sockets[u]
  /\ sockets' = [sockets EXCEPT ![u] = @ \ {s}]
  /\ connectedUsers' = [connectedUsers EXCEPT ![u] = Null]
  /\ UNCHANGED deliveries
  /\ UNCHANGED <<recordState, store, fileExists, pc, doc, events, caught, rejected>>
  /\ UNCHANGED <<views, uploadResponse, streams, downloads, request, response>>
  /\ UNCHANGED <<pendingViews, scoreVector, classified, requester>>
  /\ UNCHANGED <<caller, visibility, accessResponse, library, job>>

isUserConnected(u) == connectedUsers[u] # Null

\* The function getSocketEmitter(u) returned is called: the event goes to the
\* socket the map holds for u, and to nobody when it holds none.
getSocketEmitter(u) ==
  /\ Len(deliveries) < MaxEmits
  /\ deliveries' =
       Append(deliveries,
              [user |-> u, socket |-> connectedUsers[u],
               received |-> /\ connectedUsers[u] # Null
                            /\ connectedUsers[u][1] \in sockets[u]])
  /\ UNCHANGED <<sockets, connectedUsers>>
  /\ UNCHANGED <<recordState, store, fileExists, pc, doc, events, caught, rejected>>
  /\ UNCHANGED <<views, uploadResponse, streams, downloads, request, response>>
  /\ UNCHANGED <<pendingViews, scoreVector, classified, requester>>
  /\ UNCHANGED <<caller, visibility, accessResponse, library, job>>

SocketNext ==
  \E u \in Users :
    \/ \E s \in SocketIds : Connected(u, s)
    \/ \E s \in SocketIds : Disconnected(u, s)
    \/ getSocketEmitter(u)

SocketSpec == Init /\ [][SocketNext]_vars

\* ----------------------------------------------------------- access
\* How a user may relate to the video they ask for, and the visibilities.
Callers ==
  [isOwner : BOOLEAN, role : Roles, sameOrganization : BOOLEAN,
   shared : {"none", "view", "edit"}]

Visibilities == {"private", "organization", "public"}

\* videoSchema.methods.isAccessibleBy
isAccessibleBy(vis, user) ==
  \/ user.isOwner
  \/ user.role = "admin" /\ user.sameOrganization
  \/ vis = "public"
  \/ vis = "organization" /\ user.sameOrganization
  \/ user.shared # "none"

\* videoSchema.methods.getPermissionLevel
getPermissionLevel(vis, user) ==
  IF user.isOwner THEN "owner"
  ELSE IF user.role = "admin" /\ user.sameOrganization THEN "admin"
  ELSE IF user.shared # "none" THEN user.shared
  ELSE IF vis \in {"public", "organization"} THEN "view"
  ELSE "none"

\* The status code each controller answers the caller with, from what
\* findById returns.
getVideo ==
  IF ~Present THEN 404
  ELSE IF ~isAccessibleBy(visibility, caller) THEN 403
  ELSE 200

streamVideoAccess ==
  IF ~Present THEN 404
  ELSE IF ~isAccessibleBy(visibility, caller) THEN 403
  ELSE IF store.status # "completed" THEN 400
  ELSE IF ~fileExists THEN 404
  ELSE 200

getThumbnail ==
  IF ~Present THEN 404
  ELSE IF ~isAccessibleBy(visibility, caller) THEN 403
  ELSE IF store.thumbnail = Null \/ ~fileExists THEN 404
  ELSE 200

downloadVideoAccess ==
  IF ~Present THEN 404
  ELSE IF getPermissionLevel(visibility, caller) \notin {"owner", "admin", "edit"}
    THEN 403
  ELSE IF ~fileExists THEN 404
  ELSE 200

getVideoStatus ==
  IF ~Present THEN 404 ELSE 200

Endpoints == {"get", "stream", "thumbnail", "download", "status"}

EndpointCode(e) ==
  CASE e = "get" -> getVideo
    [] e = "stream" -> streamVideoAccess
    [] e = "thumbnail" -> getThumbnail
    [] e = "download" -> downloadVideoAccess
    [] e = "status" -> getVideoStatus

\* The caller's request to an endpoint is answered.
Answered(e) ==
  /\ accessResponse' = Some([endpoint |-> e, code |-> EndpointCode(e)])
  /\ UNCHANGED <<caller, visibility>>
  /\ UNCHANGED <<recordState, store, fileExists, pc, doc, events, caught, rejected>>
  /\ UNCHANGED <<views, uploadResponse, streams, downloads, request, response>>
  /\ UNCHANGED <<pendingViews, scoreVector, classified, requester>>
  /\ UNCHANGED <<sockets, connectedUsers, deliveries, library, job>>

\* Any user asks for a video of any visibility.
AccessInit ==
  /\ caller \in Callers
  /\ visibility \in Visibilities
  /\ accessResponse = Null
  /\ recordState = "none"
  /\ store = NewVideo
  /\ views = 0
  /\ fileExists = TRUE
  /\ pc = [r \in Runs |-> "idle"]
  /\ doc = [r \in Runs |-> Document(NewVideo)]
  /\ events = [r \in Runs |-> <<>>]
  /\ caught = [r \in Runs |-> ""]
  /\ rejected = FALSE
  /\ uploadResponse = Null
  /\ streams = 0
  /\ downloads = 0
  /\ request = NoRequest
  /\ response = NoResponse
  /\ pendingViews = 0
  /\ scoreVector = Uniform(0)
  /\ classified = Null
  /\ requester = "editor"
  /\ SocketsIdle
  /\ PairIdle

AccessNext == UploadNext \/ \E e \in Endpoints : Answered(e)

AccessSpec == AccessInit /\ [][AccessNext]_vars

\* --------------------------------------------------- several assets
\* Every event a job passes to its socketEmitter carries video._id.
Tagged(id, es) == [i \in 1..Len(es) |-> [videoId |-> id, event |-> es[i]]]

\* The job goes on at p with document d, having emitted es.
Moved(j, p, d, es) ==
  [j EXCEPT !.pc = p, !.doc = d, !.events = @ \o Tagged(j.id, es)]

\* A step of a job that leaves the stored record rec as it is.
Kept(rec, j) == [job |-> j, rec |-> rec]

\* An exception reaches the catch of processVideoAsync, or of analyzeVideo.
ToProcCatch(j, d, msg, es) ==
  [Moved(j, "pcatch", ProcCatch(d, msg), es) EXCEPT !.caught = msg]

ToAnalyzeCatch(j, d, msg) ==
  [Moved(j, "acatch", AnalyzeCatch(d, msg), <<>>) EXCEPT !.caught = msg]

\* A stage of processVideo opens: event, then updateProgress up to its save().
Opened(j, rec, progress, next) ==
  LET e == Checkpoint(progress)
  IN {Kept(rec, Moved(j, next,
                      updateProgress(j.doc, e.progress, e.message, e.status),
                      <<e>>))}

\* The save() of a checkpoint of processVideo returns or throws.
CheckpointSaved(j, rec, next) ==
  {[job |-> Moved(j, next, Saved(j.doc), <<>>), rec |-> SaveInto(rec, j.doc)],
   Kept(rec, ToProcCatch(j, j.doc, SaveErrorMessage, <<>>))}

\* What one step of the job j makes of j and of the stored record rec of its
\* video: processVideoAsync from the first save() of processVideo on.
JobSteps(j, rec) ==
  CASE j.pc = "s10" -> CheckpointSaved(j, rec, "d10")
    [] j.pc = "d10" -> Opened(j, rec, 30, "s30")
    [] j.pc = "s30" -> CheckpointSaved(j, rec, "probe")
    [] j.pc = "probe" ->
         {Kept(rec, Moved(j, "d30",
                          SetField(SetField(j.doc, "duration", metadata.duration),
                                   "resolution",
                                   [width |-> metadata.width,
                                    height |-> metadata.height]),
                          <<>>)) : metadata \in ProbeResults}
    [] j.pc = "d30" -> Opened(j, rec, 50, "s50")
    [] j.pc = "s50" -> CheckpointSaved(j, rec, "thumb")
    [] j.pc = "thumb" ->
         {Kept(rec, Moved(j, "d50",
                          IF thumbnail # Null
                            THEN SetField(j.doc, "thumbnail", thumbnail)
                            ELSE j.doc,
                          <<>>)) : thumbnail \in {Null, Some("thumb.jpg")}}
    [] j.pc = "d50" -> Opened(j, rec, 70, "s70")
    [] j.pc = "s70" ->
         {[job |-> Moved(j, "d70",
                         SetField(Saved(j.doc), "streamingUrl",
                                  Some("/api/videos/id/stream")),
                         <<>>),
           rec |-> SaveInto(rec, j.doc)],
          Kept(rec, ToProcCatch(j, j.doc, SaveErrorMessage, <<>>))}
    [] j.pc = "d70" -> Opened(j, rec, 90, "s90")
    [] j.pc = "s90" -> CheckpointSaved(j, rec, "d90")
    [] j.pc = "d90" ->
         {Kept(rec, Moved(j, "s92",
                          updateProgress(j.doc, 92,
                                         "Analyzing content for sensitivity...",
                                         "analyzing"),
                          AnalysisOpening))}
    [] j.pc = "s92" ->
         {[job |-> Moved(j, "d92", Saved(j.doc), <<>>), rec |-> SaveInto(rec, j.doc)],
          Kept(rec, ToAnalyzeCatch(j, j.doc, SaveErrorMessage))}
    [] j.pc = "d92" ->
         {Kept(rec, Moved(j, "d96", j.doc,
                          <<Update(96, "Generating sensitivity report...",
                                   "analyzing")>>))}
    [] j.pc = "d96" ->
         {Kept(rec, Moved(j, "s100", Merged(j.doc, c), <<>>)) :
            c \in {Classify(scores) : scores \in SampleScores}}
    [] j.pc = "s100" ->
         {[job |-> Moved(j, "done", Saved(j.doc), Completion(j.doc)),
           rec |-> SaveInto(rec, j.doc)],
          Kept(rec, ToAnalyzeCatch(j, j.doc, SaveErrorMessage))}
    [] j.pc = "acatch" ->
         {[job |-> ToProcCatch(j, Saved(j.doc), j.caught, <<ErrorEvent(j.caught)>>),
           rec |-> SaveInto(rec, j.doc)],
          Kept(rec, ToProcCatch(j, j.doc, SaveErrorMessage, <<>>))}
    [] j.pc = "pcatch" ->
         {[job |-> Moved(j, "done", Saved(j.doc), <<ErrorEvent(j.caught)>>),
           rec |-> SaveInto(rec, j.doc)],
          Kept(rec, [Moved(j, "done", j.doc, <<>>) EXCEPT !.rejected = TRUE])}
    [] OTHER -> {}

\* Video.create giving a new record any _id, one in use included.
CreatedIdsAny(lib) == AssetIds

\* The _id Video.create gives a new record: one no record has.
CreatedIds(lib) == {a \in AssetIds : lib[a] = Null}

\* uploadVideo of the j-th upload: the record is created under a new _id and
\* processVideoAsync runs up to the first save() of processVideo.
UploadedAs(j) ==
  /\ job[j].pc = "idle"
  /\ \E id \in CreatedIds(library) :
       /\ library' = [library EXCEPT ![id] = Some(NewVideo)]
       /\ job' = [job EXCEPT ![j] =
                    Moved([IdleJob EXCEPT !.id = id], "s10",
                          updateProgress(Document(NewVideo), 10,
                                         "Validating file...", "processing"),
                          <<Signal("upload:complete",
                                   "Upload complete, processing started"),
                            Checkpoint(10)>>)]
  /\ UNCHANGED <<recordState, store, fileExists, pc, doc, events, caught, rejected>>
  /\ UNCHANGED <<views, uploadResponse, streams, downloads, request, response>>
  /\ UNCHANGED <<pendingViews, scoreVector, classified, requester>>
  /\ UNCHANGED <<sockets, connectedUsers, deliveries>>
  /\ UNCHANGED <<caller, visibility, accessResponse>>

\* The job of the j-th upload takes its next step.
JobStepped(j) ==
  /\ job[j].pc \notin {"idle", "done"}
  /\ \E o \in JobSteps(job[j], library[job[j].id][1]) :
       /\ job' = [job EXCEPT ![j] = o.job]
       /\ library' = [library EXCEPT ![job[j].id] = Some(o.rec)]
  /\ UNCHANGED <<recordState, store, fileExists, pc, doc, events, caught, rejected>>
  /\ UNCHANGED <<views, uploadResponse, streams, downloads, request, response>>
  /\ UNCHANGED <<pendingViews, scoreVector, classified, requester>>
  /\ UNCHANGED <<sockets, connectedUsers, deliveries>>
  /\ UNCHANGED <<caller, visibility, accessResponse>>

PairNext == \E j \in AssetIds : UploadedAs(j) \/ JobStepped(j)

PairSpec == Init /\ [][PairNext]_vars

\* ------------------------------------------------------------ claims
Active(r) == pc[r] \notin {"idle", "done"}

StatusRank(st) ==
  CASE st = "uploading" -> 0
    [] st = "processing" -> 1
    [] st = "analyzing" -> 2
    [] st = "completed" -> 3
    [] st = "failed" -> 3

UpdatesOf(es) == SelectSeq(es, LAMBDA e : e.name = "processing:update")

ErrorsOf(es) == SelectSeq(es, LAMBDA e : e.name = "processing:error")

\* The events run r emits in this step.
Emitted(r) == SubSeq(events'[r], Len(events[r]) + 1, Len(events'[r]))

\* C1: whenever a run publishes a processing:update event, the stored record
\* holds, once that step is over, at least the progress and the status the
\* event carries.
C1_PublishedAfterPersisted ==
  [][\A r \in Runs : \A i \in 1..Len(Emitted(r)) :
       LET e == Emitted(r)[i]
       IN e.name = "processing:update" =>
            /\ Present'
            /\ store'.processingProgress >= e.progress
            /\ StatusRank(store'.status) >= StatusRank(e.status)]_vars

\* C2: at most one pipeline run is active for the asset at any time.
C2_OneActiveRun == Cardinality({r \in Runs : Active(r)}) <= 1

\* The step is the save of a reanalysis reset.
IsReanalysisReset ==
  \E r \in Runs \ {UploadRun} : pc[r] = "reset" /\ pc'[r] = "s92"

AllowedTransition(a, b) ==
  \/ a = b
  \/ a = "uploading" /\ b = "processing"
  \/ a = "processing" /\ b \in {"analyzing", "failed"}
  \/ a = "analyzing" /\ b \in {"completed", "failed"}
  \/ a = "completed" /\ b = "analyzing" /\ IsReanalysisReset

\* C3: the stored status only moves uploading -> processing -> analyzing ->
\* completed, to failed from processing or analyzing, and from completed to
\* analyzing by a reanalysis.
C3_StatusTransitions ==
  [][Present /\ Present' => AllowedTransition(store.status, store'.status)]_vars

\* C4: an upload-triggered run that a fatal failure aborted leaves the asset
\* failed with an error message and has published exactly one
\* processing:error event (stated for the runs whose failure handler could
\* save, with the record still there and no reanalysis requested).
C4_OneErrorEvent ==
  ( /\ pc[UploadRun] = "done"
    /\ caught[UploadRun] # ""
    /\ ~rejected
    /\ Present
    /\ \A r \in Runs \ {UploadRun} : pc[r] = "idle" )
  => /\ store.status = "failed"
     /\ store.errorMessage # Null
     /\ Len(ErrorsOf(events[UploadRun])) = 1

\* C5: the stored progress is 100 exactly when the stored status is completed.
C5_HundredIffCompleted ==
  Present => (store.processingProgress = 100 <=> store.status = "completed")

ExpectedUpdates ==
  <<[progress |-> 10, status |-> "processing"],
    [progress |-> 30, status |-> "processing"],
    [progress |-> 50, status |-> "processing"],
    [progress |-> 70, status |-> "analyzing"],
    [progress |-> 90, status |-> "analyzing"],
    [progress |-> 92, status |-> "analyzing"],
    [progress |-> 96, status |-> "analyzing"],
    [progress |-> 100, status |-> "completed"]>>

\* The progress and status of the processing:update events among es, in order.
Checkpoints(es) ==
  LET us == UpdatesOf(es)
  IN [i \in 1..Len(us) |-> [progress |-> us[i].progress, status |-> us[i].status]]

IsPrefix(a, b) == Len(a) <= Len(b) /\ a = SubSeq(b, 1, Len(a))

\* C6: an upload-triggered run without failure publishes the updates 10, 30, 50
\* (processing), 70, 90, 92, 96 (analyzing) and 100 (completed), in this order
\* and nothing else: while it runs, what it has published is a prefix of that
\* list, and when it is over, the whole list.
C6_CheckpointSequence ==
  caught[UploadRun] = "" =>
    /\ IsPrefix(Checkpoints(events[UploadRun]), ExpectedUpdates)
    /\ pc[UploadRun] = "done" => Checkpoints(events[UploadRun]) = ExpectedUpdates

C6_Witness ==
  /\ pc[UploadRun] = "done"
  /\ caught[UploadRun] = ""
  /\ Len(UpdatesOf(events[UploadRun])) = 8
  /\ store.status = "completed"

NonDecreasing(es) ==
  \A i \in 1..(Len(es) - 1) : es[i].progress <= es[i + 1].progress

\* C7: within a run the published progress values never decrease, and the
\* stored progress decreases only in the reset of a reanalysis.
C7_ProgressMonotonic ==
  [][/\ \A r \in Runs : NonDecreasing(UpdatesOf(events'[r]))
     /\ (Present /\ Present' /\ store'.processingProgress < store.processingProgress)
          => IsReanalysisReset]_vars

NotCompleted == {"uploading", "processing", "analyzing", "failed"}

\* C8: a stream request that finds the video in a status other than completed
\* is answered 400, with no byte of the file and no view counted.
C8_StreamGate ==
  (response.kind = "stream" /\ response.statusSeen \in NotCompleted)
    => /\ response.code = 400
       /\ response.bytes = 0
       /\ ~response.viewScheduled

C8_Witness ==
  /\ response.kind = "stream"
  /\ response.statusSeen = "analyzing"
  /\ response.code = 400
  /\ fileExists

\* C9: a download request that finds the video in a status other than
\* completed gets an error response and no byte of the file.
C9_DownloadGate ==
  (response.kind = "download" /\ response.statusSeen \in NotCompleted)
    => /\ response.code >= 400
       /\ response.bytes = 0

\* C10: a request "bytes=s-e" or "bytes=s-" with s below the file size N is
\* answered 206 with Content-Range start-end/N where 0 <= start <= end <= N - 1,
\* and Content-Length = end - start + 1 = the bytes the body delivers.
C10_RangeExact ==
  (request.kind = "range" /\ response.kind = "stream"
     /\ request.range[1].start < request.size)
    => /\ response.code = 206
       /\ response.contentRange # Null
       /\ LET cr == response.contentRange[1]
          IN /\ 0 <= cr.start /\ cr.start <= cr.end /\ cr.end <= request.size - 1
             /\ cr.total = request.size
             /\ response.contentLength = Some(cr.end - cr.start + 1)
             /\ response.bytes = cr.end - cr.start + 1

\* C11: a range request whose start is at or beyond the file size N is answered
\* 416 with N in the body, no byte of the file and no view counted.
C11_RangeNotSatisfiable ==
  (request.kind = "range" /\ response.kind = "stream"
     /\ request.range[1].start >= request.size)
    => /\ response.code = 416
       /\ response.fileSize = Some(request.size)
       /\ response.bytes = 0
       /\ response.contentRange = Null
       /\ ~response.viewScheduled

C11_Witness ==
  /\ request.kind = "range"
  /\ request.size = 2
  /\ request.range[1].start = 2
  /\ request.range[1].end = Some(3)
  /\ response.code = 416
  /\ response.fileSize = Some(2)

Exceeded(v) ==
  {i \in 1..Len(Categories) : v[Categories[i]] >= thresholds[Categories[i]]}

RECURSIVE ExpectedReasons(_, _)
ExpectedReasons(v, i) ==
  IF i > Len(Categories) THEN <<>>
  ELSE IF i \in Exceeded(v)
    THEN <<categoryLabels[Categories[i]] \o " detected (score: "
             \o NumberText(v[Categories[i]]) \o ")">> \o ExpectedReasons(v, i + 1)
    ELSE ExpectedReasons(v, i + 1)

\* C14: reasons holds one string "<label> detected (score: <n>)" per category
\* whose score is at or above its threshold, in declaration order, and no other.
C14_ReasonsPerCategory ==
  classified # Null =>
    /\ classified[1].reasons = ExpectedReasons(scoreVector, 1)
    /\ Len(classified[1].reasons) = Cardinality(Exceeded(scoreVector))
    /\ scoreVector = [Uniform(10) EXCEPT !.violence = 80]
         => classified[1].reasons = <<"Violent content detected (score: 80)">>

C14_Witness ==
  /\ classified # Null
  /\ Cardinality(Exceeded(scoreVector)) = 3
  /\ scoreVector.violence < thresholds.violence
  /\ scoreVector.adult = MaxScore
  /\ Len(classified[1].reasons) = 3
  /\ classified[1].reasons[1] = "Adult content detected (score: 100)"

\* Run r has read the completed asset and is about to store the reset of its
\* reanalysis, and no other run is active.
ReanalysisOfCompleted(r) ==
  /\ r # UploadRun
  /\ pc[r] = "reset"
  /\ \A q \in Runs \ {r} : ~Active(q)
  /\ Present
  /\ store.status = "completed"
  /\ doc[r] = Reset(Document(store))

MetadataKept ==
  /\ store'.duration = store.duration
  /\ store'.resolution = store.resolution
  /\ store'.thumbnail = store.thumbnail

C16_ResponseUploading ==
  uploadResponse # Null =>
    /\ uploadResponse[1].status = "uploading"
    /\ uploadResponse[1].processingProgress = NewVideo.processingProgress

\* C17: whatever the probe and the thumbnail subprocess return, the run goes on
\* to its next stage without an exception and without publishing anything; a
\* run that ends without an exception has stored completed and published no
\* processing:error, with duration, resolution and thumbnail null when the
\* subprocesses returned nothing.
C17_SubprocessFailureNotFatal ==
  /\ [][/\ (pc[UploadRun] = "probe" /\ pc'[UploadRun] # "probe")
            => /\ pc'[UploadRun] = "d30"
               /\ caught' = caught
               /\ events' = events
        /\ (pc[UploadRun] = "thumb" /\ pc'[UploadRun] # "thumb")
            => /\ pc'[UploadRun] = "d50"
               /\ caught' = caught
               /\ events' = events]_vars
  /\ [](  (pc[UploadRun] = "done" /\ caught[UploadRun] = "")
         => /\ store.status = "completed"
            /\ store.errorMessage = Null
            /\ ErrorsOf(events[UploadRun]) = <<>>)

C17_Witness ==
  /\ pc[UploadRun] = "done"
  /\ caught[UploadRun] = ""
  /\ store.status = "completed"
  /\ store.duration = Null
  /\ store.resolution = [width |-> Null, height |-> Null]
  /\ store.thumbnail = Null
  /\ ErrorsOf(events[UploadRun]) = <<>>

\* C18: every started upload run eventually ends, with the asset stored
\* completed or failed, even when a subprocess never exits.
C18_RunTerminates ==
  (pc[UploadRun] = "s10")
    ~> (pc[UploadRun] = "done" \/ store.status \in {"completed", "failed"}
          \/ ~Present)

\* C19: in every stored state the errorMessage is non-null exactly when the
\* status is failed.
C19_ErrorMessageIffFailed ==
  Present => (store.errorMessage # Null <=> store.status = "failed")

\* C20: a video record exists, and a pipeline has been started, only by the
\* upload of an editor or an admin, never of a viewer.
C20_ViewerCannotUpload ==
  (recordState # "none" \/ pc[UploadRun] # "idle" \/ uploadResponse # Null)
    => requester \in {"editor", "admin"}

\* The progress values a run publishes, and whether run r has published p.
PublishedValues == {ExpectedUpdates[i].progress : i \in 1..Len(ExpectedUpdates)}

Published(r, p) ==
  \E i \in 1..Len(events[r]) :
    events[r][i].name = "processing:update" /\ events[r][i].progress = p

\* C21: every progress value the upload run publishes, 92 and 96 of the
\* classifier included, is also persisted: once the value is published there
\* is a state in which the stored processingProgress equals it.  Stated for
\* the runs that end without having handled any error.
C21_PublishedIsPersisted ==
  <>(pc[UploadRun] = "done" /\ caught[UploadRun] = "")
    => \A p \in PublishedValues :
         <>Published(UploadRun, p)
           => <>(Present /\ store.processingProgress = p)

\* C22: in the classification result every category, not only the first one
\* found, has detected true exactly when its score reaches its threshold.
C22_DetectedIffExceeded ==
  classified # Null =>
    \A i \in 1..Len(Categories) :
      LET c == Categories[i]
      IN classified[1].details[c].detected <=> scoreVector[c] >= thresholds[c]

\* The highest and the sum of the five scores of v.
HighestOf(v) ==
  CHOOSE m \in {v[Categories[i]] : i \in 1..Len(Categories)} :
    \A i \in 1..Len(Categories) : v[Categories[i]] <= m

TotalOf(v) == v.violence + v.adult + v.hate + v.drugs + v.language

\* C23: for every vector of five integer scores in 0..MaxScore the overall
\* score is 0.6 * max + 0.4 * mean rounded to the nearest integer, halves up:
\* an integer in 0..MaxScore, not below the mean and not above the maximum.
C23_OverallScore ==
  classified # Null =>
    LET r == classified[1].score
        weighted25 == 15 * HighestOf(scoreVector) + 2 * TotalOf(scoreVector)
    IN /\ r \in 0..MaxScore
       /\ 50 * r - 25 <= 2 * weighted25
       /\ 2 * weighted25 < 50 * r + 25
       /\ 5 * r >= TotalOf(scoreVector)
       /\ r <= HighestOf(scoreVector)

\* A vector with a fractional mean whose weighted score is rounded up.
C23_Witness ==
  /\ classified # Null
  /\ TotalOf(scoreVector) % 5 # 0
  /\ (15 * HighestOf(scoreVector) + 2 * TotalOf(scoreVector)) % 25 > 12
  /\ 25 * classified[1].score
       > 15 * HighestOf(scoreVector) + 2 * TotalOf(scoreVector)

\* C24: in every reachable state, a delete issued while a run is active
\* included, a stored record whose status is uploading, processing or
\* analyzing has its source file on disk.
C24_ActiveRecordHasFile ==
  (Present /\ store.status \in {"uploading", "processing", "analyzing"})
    => fileExists

\* The fields the probe and the thumbnail stage populate, the fields the
\* failure handlers assign, and all fields of a record.
StageFields == {"duration", "resolution", "thumbnail"}

HandlerFields ==
  {"status", "errorMessage", "processingMessage", "sensitivityStatus"}

Fields == DOMAIN NewVideo

\* C25: when a run fails after the probe populated duration and resolution or
\* the thumbnail stage populated the thumbnail, the record stored by the
\* transition to failed holds those values: what was stored stays stored, what
\* the run's document holds is stored with the failure, and entering a failure
\* handler changes, in the run's document, only status, errorMessage,
\* processingMessage and sensitivityStatus.
C25_FailureKeepsMetadata ==
  [][/\ (store.status # "failed" /\ store'.status = "failed")
          => \A f \in StageFields :
               /\ store[f] # NewVideo[f] => store'[f] = store[f]
               /\ store'[f] = doc[UploadRun].val[f]
     /\ \A r \in Runs :
          (pc'[r] \in {"pcatch", "acatch"} /\ pc'[r] # pc[r])
            => \A f \in Fields \ HandlerFields :
                 doc'[r].val[f] = doc[r].val[f]]_vars

C25_Witness ==
  /\ Present
  /\ store.status = "failed"
  /\ pc[UploadRun] = "done"
  /\ store.duration # Null
  /\ store.resolution # NewVideo.resolution
  /\ store.thumbnail # Null

\* C28: an exception raised while the catch of processVideoAsync records a
\* failure, its save failing because the store is down or the record deleted,
\* never escapes as an unhandled promise rejection.
C28_NoUnhandledRejection == ~rejected

\* The fields a classification run writes, and a run that classified and
\* ended without an exception.
SensitivityFields ==
  {"sensitivityStatus", "sensitivityScore", "sensitivityDetails",
   "sensitivityReasons"}

ClassifiedCleanly(r) ==
  /\ pc[r] = "done"
  /\ caught[r] = ""
  /\ Published(r, 100)

\* C29: when two classification runs of the same asset overlap, then once
\* both have finished the stored sensitivityStatus, sensitivityScore,
\* sensitivityDetails and sensitivityReasons all come from one and the same
\* of the two runs.
C29_ClassificationFromOneRun ==
  (Present /\ \A r \in Runs : ClassifiedCleanly(r))
    => \E r \in Runs :
         \A f \in SensitivityFields : store[f] = doc[r].val[f]

\* C27: for any interleaving of the connects and disconnects of a user's
\* sockets, a second connection opened before the first one closes included,
\* whenever the user has at least one connected socket isUserConnected is
\* true for them and an event emitted through their getSocketEmitter function
\* is delivered to a connected socket.
C27_ConnectedUserIsReached ==
  [][\A u \in Users :
       /\ sockets'[u] # {} => isUserConnected(u)'
       /\ (/\ Len(deliveries') > Len(deliveries)
           /\ deliveries'[Len(deliveries')].user = u
           /\ sockets[u] # {})
            => deliveries'[Len(deliveries')].received]_vars

\* C30: every endpoint that returns data of a single video (get, stream,
\* thumbnail, download, status) refuses a requester for whom isAccessibleBy
\* is false.
C30_EndpointsRefuse ==
  (accessResponse # Null /\ ~isAccessibleBy(visibility, caller))
    => accessResponse[1].code \in {403, 404}

\* The events of a job without their videoId, and what is seen of one asset:
\* its job and its stored record.
EventsOf(j) == [i \in 1..Len(j.events) |-> j.events[i].event]

AssetView(jobs, lib, k) == [job |-> jobs[k], rec |-> lib[jobs[k].id][1]]

====
